---- MODULE Spec2Model ----
(***************************************************************************)
(* A model of bedtools bedpesummary (src/bedpeSummary/bedpeSummary.cpp):   *)
(* the scan ProcessBedPE_summary, the median helper calc_median_chrposv    *)
(* and the constructor of HistogramData.                                   *)
(*                                                                         *)
(* Spec      one run of ProcessBedPE_summary over a reader that yields     *)
(*           any sequence of outcomes, one statement group per step.       *)
(* SpecPerm  two runs of the same scan, as a function of the input lines,  *)
(*           over an input and one of its permutations.                    *)
(***************************************************************************)
EXTENDS Integers, Sequences, FiniteSets

VARIABLES
    pc,             \* position in ProcessBedPE_summary
    bedpeStatus_a,  \* BedLineStatus of the last pull
    bedpeEntry_a,   \* BEDPE filled by the last pull
    lineNum_a,      \* line cursor advanced by the reader
    n_intrachrom, n_interchrom, inversion, insertion, deletion,
    total_distance,
    accum,          \* std::vector<CHRPOS> of distances
    mean_len, median_len,
    hist,           \* the HistogramData object
    out,            \* what has been written to std::cout, in order
    stream,         \* the input stream: "unopened", "open" or "closed"
    closes,         \* number of calls of bedpe->Close()
    validSeen,      \* history: BED_VALID outcomes the reader has returned
    eofSeen,        \* history: BED_INVALID outcomes the reader has returned
    bodyRuns,       \* history: executions of the do-while body
    faults,         \* history: undefined operations the run has executed
    permA, permB,   \* SpecPerm: an input and a permutation of it
    resA, resB      \* SpecPerm: the outcome of the scan on each

scanvars == <<pc, bedpeStatus_a, bedpeEntry_a, lineNum_a, n_intrachrom,
              n_interchrom, inversion, insertion, deletion, total_distance,
              accum, mean_len, median_len, hist, out, stream, closes,
              validSeen, eofSeen, bodyRuns, faults>>
permvars == <<permA, permB, resA, resB>>
vars == <<scanvars, permvars>>

----------------------------------------------------------------------------
(* Bounds and input domains *)

\* Lines (valid records, headers, blank lines) the reader yields before end
MaxLines == 3
\* Lines of an input of SpecPerm
PermMaxLen == 3
\* The bin count passed to HistogramData at the call site
NumBins == 10

Chroms == {"chr1", "chr2"}
Starts1 == {0, 11}
Starts2 == {0, 1, 11}
Strands == {"+", "-", "."}

Records == [chrom1: {"chr1"}, chrom2: Chroms, start1: Starts1, start2: Starts2,
            strand1: Strands, strand2: Strands]

\* A default-constructed BEDPE; its fields are read only after BED_VALID.
NullEntry == [chrom1 |-> "", chrom2 |-> "", start1 |-> 0, start2 |-> 0,
              strand1 |-> "", strand2 |-> ""]

\* Stand-in for the most negative CHRPOS (-2^63) within TLC's integers.
ChrposMin == 0 - 1048576

\* Values an undefined read or conversion can leave in a CHRPOS.
Indeterminate == {ChrposMin, 0, 1}

----------------------------------------------------------------------------
(* Helpers over sequences *)

Range(s) == {s[i] : i \in 1..Len(s)}

RECURSIVE SumSeq(_)
SumSeq(s) == IF s = <<>> THEN 0 ELSE s[1] + SumSeq(Tail(s))

RECURSIVE InsertSorted(_, _)
InsertSorted(x, s) ==
    IF s = <<>> THEN <<x>>
    ELSE IF x <= s[1] THEN <<x>> \o s
    ELSE <<s[1]>> \o InsertSorted(x, Tail(s))

\* std::sort(accum.begin(), accum.end())
RECURSIVE Sort(_)
Sort(s) == IF s = <<>> THEN <<>> ELSE InsertSorted(s[1], Sort(Tail(s)))

MinOf(s) == CHOOSE v \in Range(s) : \A w \in Range(s) : v <= w
MaxOf(s) == CHOOSE v \in Range(s) : \A w \in Range(s) : w <= v

----------------------------------------------------------------------------
(* Arithmetic of the C++ integer types, within the model's value range *)

\* operator/ on signed integers: the quotient truncated toward zero
TruncDiv(a, b) ==
    IF (a >= 0) = (b > 0) THEN (IF a >= 0 THEN a ELSE 0 - a) \div (IF b > 0 THEN b ELSE 0 - b)
    ELSE 0 - ((IF a >= 0 THEN a ELSE 0 - a) \div (IF b > 0 THEN b ELSE 0 - b))

llabs_NoAbs(x) == x

\* llabs(bedpeEntry_a.start2 - bedpeEntry_a.start1)
llabs(x) == IF x < 0 THEN 0 - x ELSE x

----------------------------------------------------------------------------
(* The record source: BedFilePE::GetNextBedPE *)

\* One pull: a status and the entry it leaves behind. A header or blank line
\* leaves the entry as it was; after MaxLines lines only end-of-input is left.
GetNextBedPE(entry, lineNum) ==
    {[status |-> "BED_INVALID", entry |-> entry, lineNum |-> lineNum]}
    \cup (IF lineNum < MaxLines
          THEN {[status |-> "BED_VALID", entry |-> r, lineNum |-> lineNum + 1] : r \in Records}
               \cup {[status |-> st, entry |-> entry, lineNum |-> lineNum + 1] :
                        st \in {"BED_HEADER", "BED_BLANK"}}
          ELSE {})

----------------------------------------------------------------------------
(* The body of the do-while loop *)

StrandClass_PlusFirst(strand1, strand2) ==
    IF strand1 = "+" /\ strand2 # "+" THEN "deletion"
    ELSE IF strand1 = strand2 THEN "inversion"
    ELSE IF strand1 = "-" /\ strand2 = "+" THEN "insertion"
    ELSE "none"

\* The if / else-if chain over the strands: the counter it increments
StrandClass(strand1, strand2) ==
    IF strand1 = strand2 THEN "inversion"
    ELSE IF strand1 = "+" /\ strand2 = "-" THEN "deletion"
    ELSE IF strand1 = "-" /\ strand2 = "+" THEN "insertion"
    ELSE "none"

\* The totals of the scan as one value
Totals == [n_intrachrom |-> n_intrachrom, n_interchrom |-> n_interchrom,
           inversion |-> inversion, insertion |-> insertion, deletion |-> deletion,
           total_distance |-> total_distance, accum |-> accum]

ZeroTotals == [n_intrachrom |-> 0, n_interchrom |-> 0, inversion |-> 0,
               insertion |-> 0, deletion |-> 0, total_distance |-> 0, accum |-> <<>>]

Accumulate_NoPush(t, status, e) ==
    IF status = "BED_VALID"
    THEN IF e.chrom1 = e.chrom2
         THEN [t EXCEPT !.n_interchrom = @ + 1]
         ELSE [t EXCEPT !.n_intrachrom = @ + 1,
                        !.total_distance = @ + llabs(e.start2 - e.start1)]
    ELSE t

Accumulate_AnyLine(t, status, e) ==
    IF e.chrom1 = e.chrom2
    THEN [t EXCEPT !.n_interchrom = @ + 1]
    ELSE [t EXCEPT !.n_intrachrom = @ + 1,
                   !.accum = Append(@, llabs(e.start2 - e.start1)),
                   !.total_distance = @ + llabs(e.start2 - e.start1)]

\* One execution of the loop body on the pulled status and entry
Accumulate(t, status, e) ==
    IF status = "BED_VALID"
    THEN IF e.chrom1 = e.chrom2
         THEN [t EXCEPT !.n_interchrom = @ + 1]
         ELSE LET distance == llabs(e.start2 - e.start1)
                  class == StrandClass(e.strand1, e.strand2)
              IN [t EXCEPT !.n_intrachrom = @ + 1,
                           !.accum = Append(@, distance),
                           !.total_distance = @ + distance,
                           !.inversion = IF class = "inversion" THEN @ + 1 ELSE @,
                           !.deletion = IF class = "deletion" THEN @ + 1 ELSE @,
                           !.insertion = IF class = "insertion" THEN @ + 1 ELSE @]
    ELSE t

----------------------------------------------------------------------------
(* Finalisation: mean, median, histogram *)

\* Conversion of std::nan("") to CHRPOS: undefined; builds give 0 or the
\* most negative CHRPOS.
NanToChrpos == {ChrposMin, 0}

\* CHRPOS mean_len = (n_intrachrom != 0) ? total_distance / n_intrachrom : nan
MeanLen(total, n) ==
    IF n # 0 THEN {TruncDiv(total, n)} ELSE NanToChrpos

\* calc_median_chrposv: the outcomes of one call. The vector is sorted in
\* place; with n = 0 both accum[n/2 - 1] and accum[0] are out of bounds, so
\* the call either faults or returns whatever the reads produced.
calc_median_chrposv(data) ==
    LET sorted == Sort(data)
        n == Len(sorted)
    IN IF n = 0
       THEN {[accum |-> sorted, value |-> 0, crashed |-> TRUE, ub |-> TRUE]}
            \cup {[accum |-> sorted, value |-> v, crashed |-> FALSE, ub |-> TRUE] :
                     v \in Indeterminate}
       ELSE {[accum |-> sorted,
              value |-> IF n % 2 # 0 THEN sorted[(n \div 2) + 1]
                        ELSE TruncDiv(sorted[n \div 2] + sorted[(n \div 2) + 1], 2),
              crashed |-> FALSE, ub |-> FALSE]}

\* int bin_idx = (value - min_val) / bin_width; if (bin_idx == num_bins) bin_idx--
BinIdx(value, min_val, bin_width, num_bins) ==
    LET raw == TruncDiv(value - min_val, bin_width)
    IN IF raw = num_bins THEN raw - 1 ELSE raw

\* A HistogramData as the member initialisers leave it
EmptyHistogram(num_bins) ==
    [n_bins |-> num_bins, min_val |-> 0, max_val |-> 0, bin_width |-> 0,
     bin_data |-> [b \in 0..(num_bins - 1) |-> 0]]

\* HistogramData::HistogramData: the outcomes of one construction. An index
\* outside 0..num_bins-1 writes past bin_data: the build either faults or the
\* write lands outside the bins and the in-range counts stand.
HistogramData(data, num_bins) ==
    IF data = <<>> \/ num_bins <= 0
    THEN {[h |-> EmptyHistogram(num_bins), oob |-> {}, crashed |-> FALSE]}
    ELSE LET min_val == MinOf(data)
             max_val == MaxOf(data)
             bin_width == TruncDiv(max_val - min_val, num_bins)
             sized == [EmptyHistogram(num_bins) EXCEPT !.min_val = min_val,
                          !.max_val = max_val, !.bin_width = bin_width]
         IN IF bin_width = 0
            THEN {[h |-> sized, oob |-> {}, crashed |-> FALSE]}
            ELSE LET idx == [i \in 1..Len(data) |->
                                BinIdx(data[i], min_val, bin_width, num_bins)]
                     oob == {idx[i] : i \in 1..Len(data)} \ (0..(num_bins - 1))
                     filled == [sized EXCEPT !.bin_data =
                                   [b \in 0..(num_bins - 1) |->
                                       Cardinality({i \in 1..Len(data) : idx[i] = b})]]
                 IN IF oob = {}
                    THEN {[h |-> filled, oob |-> {}, crashed |-> FALSE]}
                    ELSE {[h |-> filled, oob |-> oob, crashed |-> FALSE],
                          [h |-> filled, oob |-> oob, crashed |-> TRUE]}

----------------------------------------------------------------------------
(* ProcessBedPE_summary, one statement group per action *)

NoHistogram == EmptyHistogram(0)

ScanInit ==
    /\ pc = "open"
    /\ bedpeStatus_a = "BED_INVALID"
    /\ bedpeEntry_a = NullEntry
    /\ lineNum_a = 0
    /\ n_intrachrom = 0 /\ n_interchrom = 0
    /\ inversion = 0 /\ insertion = 0 /\ deletion = 0
    /\ total_distance = 0
    /\ accum = <<>>
    /\ mean_len = 0 /\ median_len = 0
    /\ hist = NoHistogram
    /\ out = <<>>
    /\ stream = "unopened"
    /\ closes = 0
    /\ validSeen = 0 /\ eofSeen = 0 /\ bodyRuns = 0
    /\ faults = {}

\* The result of the scan on one input: not yet run
Pending == [run |-> "pending", totals |-> ZeroTotals, mean |-> 0, median |-> 0,
            histogram |-> NoHistogram]

Init ==
    /\ ScanInit
    /\ permA = <<>> /\ permB = <<>>
    /\ resA = Pending /\ resB = Pending

\* bedpeStatus_a = bedpe->GetNextBedPE(bedpeEntry_a, lineNum_a), outcome o
Pull(o) ==
    /\ bedpeStatus_a' = o.status
    /\ bedpeEntry_a' = o.entry
    /\ lineNum_a' = o.lineNum
    /\ validSeen' = IF o.status = "BED_VALID" THEN validSeen + 1 ELSE validSeen
    /\ eofSeen' = IF o.status = "BED_INVALID" THEN eofSeen + 1 ELSE eofSeen

\* bedpe->Open()
Open ==
    /\ pc = "open"
    /\ stream' = "open"
    /\ pc' = "prime"
    /\ UNCHANGED <<bedpeStatus_a, bedpeEntry_a, lineNum_a, n_intrachrom, n_interchrom,
                   inversion, insertion, deletion, total_distance, accum, mean_len,
                   median_len, hist, out, closes, validSeen, eofSeen, bodyRuns, faults>>
    /\ UNCHANGED permvars

Prime_NoClose ==
    /\ pc = "prime"
    /\ \E o \in GetNextBedPE(bedpeEntry_a, lineNum_a) :
          /\ Pull(o)
          /\ pc' = IF o.status = "BED_INVALID" THEN "returned" ELSE "loop"
    /\ UNCHANGED <<n_intrachrom, n_interchrom, inversion, insertion, deletion,
                   total_distance, accum, mean_len, median_len, hist, out, stream,
                   closes, bodyRuns, faults>>
    /\ UNCHANGED permvars

\* Prime the pump; on BED_INVALID close the stream and return
Prime ==
    /\ pc = "prime"
    /\ \E o \in GetNextBedPE(bedpeEntry_a, lineNum_a) :
          /\ Pull(o)
          /\ IF o.status = "BED_INVALID"
             THEN /\ stream' = "closed"
                  /\ closes' = closes + 1
                  /\ pc' = "returned"
             ELSE /\ UNCHANGED <<stream, closes>>
                  /\ pc' = "loop"
    /\ UNCHANGED <<n_intrachrom, n_interchrom, inversion, insertion, deletion,
                   total_distance, accum, mean_len, median_len, hist, out,
                   bodyRuns, faults>>
    /\ UNCHANGED permvars

\* One iteration of do { ... } while ((bedpeStatus_a = GetNextBedPE(...)) != BED_INVALID)
LoopIter ==
    /\ pc = "loop"
    /\ LET t == Accumulate(Totals, bedpeStatus_a, bedpeEntry_a)
       IN /\ n_intrachrom' = t.n_intrachrom
          /\ n_interchrom' = t.n_interchrom
          /\ inversion' = t.inversion
          /\ insertion' = t.insertion
          /\ deletion' = t.deletion
          /\ total_distance' = t.total_distance
          /\ accum' = t.accum
    /\ bodyRuns' = bodyRuns + 1
    /\ \E o \in GetNextBedPE(bedpeEntry_a, lineNum_a) :
          /\ Pull(o)
          /\ pc' = IF o.status = "BED_INVALID" THEN "mean" ELSE "loop"
    /\ UNCHANGED <<mean_len, median_len, hist, out, stream, closes, faults>>
    /\ UNCHANGED permvars

\* CHRPOS mean_len = ...
CalcMean ==
    /\ pc = "mean"
    /\ \E m \in MeanLen(total_distance, n_intrachrom) : mean_len' = m
    /\ faults' = IF n_intrachrom = 0 THEN faults \cup {"nan_to_chrpos"} ELSE faults
    /\ pc' = "median"
    /\ UNCHANGED <<bedpeStatus_a, bedpeEntry_a, lineNum_a, n_intrachrom, n_interchrom,
                   inversion, insertion, deletion, total_distance, accum, median_len,
                   hist, out, stream, closes, validSeen, eofSeen, bodyRuns>>
    /\ UNCHANGED permvars

\* CHRPOS median_len = calc_median_chrposv(accum)
CalcMedian ==
    /\ pc = "median"
    /\ \E r \in calc_median_chrposv(accum) :
          /\ accum' = r.accum
          /\ median_len' = r.value
          /\ faults' = IF r.ub THEN faults \cup {"median_index_empty"} ELSE faults
          /\ pc' = IF r.crashed THEN "crashed" ELSE "print_totals"
    /\ UNCHANGED <<bedpeStatus_a, bedpeEntry_a, lineNum_a, n_intrachrom, n_interchrom,
                   inversion, insertion, deletion, total_distance, mean_len,
                   hist, out, stream, closes, validSeen, eofSeen, bodyRuns>>
    /\ UNCHANGED permvars

\* The std::cout statements before the histogram is built
PrintTotals ==
    /\ pc = "print_totals"
    /\ out' = Append(out, [part |-> "totals", inversion |-> inversion,
                           insertion |-> insertion, deletion |-> deletion,
                           n_interchrom |-> n_interchrom, n_intrachrom |-> n_intrachrom,
                           mean |-> mean_len, median |-> median_len])
    /\ pc' = "histogram"
    /\ UNCHANGED <<bedpeStatus_a, bedpeEntry_a, lineNum_a, n_intrachrom, n_interchrom,
                   inversion, insertion, deletion, total_distance, accum, mean_len,
                   median_len, hist, stream, closes, validSeen, eofSeen, bodyRuns, faults>>
    /\ UNCHANGED permvars

\* HistogramData hist(accum, 10)
BuildHistogram ==
    /\ pc = "histogram"
    /\ \E r \in HistogramData(accum, NumBins) :
          /\ hist' = r.h
          /\ faults' = IF r.oob # {} THEN faults \cup {"hist_oob_write"} ELSE faults
          /\ pc' = IF r.crashed THEN "crashed" ELSE "print_histogram"
    /\ UNCHANGED <<bedpeStatus_a, bedpeEntry_a, lineNum_a, n_intrachrom, n_interchrom,
                   inversion, insertion, deletion, total_distance, accum, mean_len,
                   median_len, out, stream, closes, validSeen, eofSeen, bodyRuns>>
    /\ UNCHANGED permvars

\* The std::cout statements that print the histogram and end the report
PrintHistogram ==
    /\ pc = "print_histogram"
    /\ out' = Append(out, [part |-> "histogram", min_val |-> hist.min_val,
                           bin_width |-> hist.bin_width, bin_counts |-> hist.bin_data])
    /\ pc' = "close"
    /\ UNCHANGED <<bedpeStatus_a, bedpeEntry_a, lineNum_a, n_intrachrom, n_interchrom,
                   inversion, insertion, deletion, total_distance, accum, mean_len,
                   median_len, hist, stream, closes, validSeen, eofSeen, bodyRuns, faults>>
    /\ UNCHANGED permvars

\* bedpe->Close() at the end of the function
Close ==
    /\ pc = "close"
    /\ stream' = "closed"
    /\ closes' = closes + 1
    /\ pc' = "returned"
    /\ UNCHANGED <<bedpeStatus_a, bedpeEntry_a, lineNum_a, n_intrachrom, n_interchrom,
                   inversion, insertion, deletion, total_distance, accum, mean_len,
                   median_len, hist, out, validSeen, eofSeen, bodyRuns, faults>>
    /\ UNCHANGED permvars

Next ==
    \/ Open
    \/ Prime
    \/ LoopIter
    \/ CalcMean
    \/ CalcMedian
    \/ PrintTotals
    \/ BuildHistogram
    \/ PrintHistogram
    \/ Close

Spec == Init /\ [][Next]_vars

----------------------------------------------------------------------------
(* Properties of the scan *)

AfterLoop == {"mean", "median", "print_totals", "histogram", "print_histogram",
              "close", "returned", "crashed"}
AfterMean == AfterLoop \ {"mean"}
AfterMedian == AfterMean \ {"median", "crashed"}
AfterHistogram == {"print_histogram", "close"}

\* A valid record is waiting at the head of the loop body
ValidPending == pc = "loop" /\ bedpeStatus_a = "BED_VALID"

\* |b - a| by cases
AbsDiff(a, b) == IF a <= b THEN b - a ELSE a - b

SumBins(h) == SumSeq([i \in 1..h.n_bins |-> h.bin_data[i - 1]])

\* C1: in every state of the scan n_interchrom + n_intrachrom is the number of
\* valid records consumed so far (those the reader has returned, less the one
\* still waiting for the loop body), inversion + insertion + deletion is at
\* most n_intrachrom, and the distance buffer has n_intrachrom elements.
C1_CountersInvariant ==
    /\ n_interchrom + n_intrachrom = validSeen - (IF ValidPending THEN 1 ELSE 0)
    /\ inversion + insertion + deletion <= n_intrachrom
    /\ Len(accum) = n_intrachrom

C1_Witness ==
    /\ n_interchrom >= 1
    /\ n_intrachrom >= 2
    /\ inversion + insertion + deletion < n_intrachrom
    /\ inversion + insertion + deletion >= 1

\* C2: the histogram of 10 bins only increments bins 0..9, and its counts sum
\* to the buffer length when the buffer is non-empty and bin_width # 0, and to
\* 0 otherwise.
C2_HistogramInRangeAndComplete ==
    /\ "hist_oob_write" \notin faults
    /\ pc \in AfterHistogram =>
          SumBins(hist) = (IF accum # <<>> /\ hist.bin_width # 0 THEN Len(accum) ELSE 0)

\* C3: when the scan ends with an empty distance buffer after at least one
\* line, the median computation does not index the empty buffer and the median
\* reported is a sentinel, not a distance.
C3_EmptyMedianGuarded ==
    (pc \in AfterMedian \cup {"crashed"} /\ lineNum_a >= 1 /\ accum = <<>>) =>
        /\ "median_index_empty" \notin faults
        /\ pc # "crashed"
        /\ median_len \notin Nat

\* C4: a valid record with chrom1 = chrom2 has |start2 - start1| appended to
\* the distance buffer and added to total_distance and is classified by its
\* strands; a valid record on two chromosomes increments one chromosomal
\* counter and leaves the buffer, total_distance, inversion, insertion and
\* deletion unchanged.
C4_Step ==
    ValidPending =>
        IF bedpeEntry_a.chrom1 = bedpeEntry_a.chrom2
        THEN /\ accum' = Append(accum, AbsDiff(bedpeEntry_a.start1, bedpeEntry_a.start2))
             /\ total_distance' =
                   total_distance + AbsDiff(bedpeEntry_a.start1, bedpeEntry_a.start2)
             /\ (bedpeEntry_a.strand1 = bedpeEntry_a.strand2 => inversion' = inversion + 1)
        ELSE /\ n_interchrom' + n_intrachrom' = n_interchrom + n_intrachrom + 1
             /\ accum' = accum
             /\ total_distance' = total_distance
             /\ inversion' = inversion
             /\ insertion' = insertion
             /\ deletion' = deletion

C4_SameChromosomeGetsDistance == [][C4_Step]_vars

\* C5: a record that receives the strand sub-classification increments at
\* most one of inversion, deletion, insertion, by 1: equal strands ->
\* inversion; else "+","-" -> deletion; else "-","+" -> insertion; any other
\* combination none.
C5_Step ==
    (ValidPending /\ n_intrachrom' # n_intrachrom) =>
        LET s1 == bedpeEntry_a.strand1
            s2 == bedpeEntry_a.strand2
            dInv == inversion' - inversion
            dDel == deletion' - deletion
            dIns == insertion' - insertion
        IN /\ {dInv, dDel, dIns} \subseteq {0, 1}
           /\ dInv + dDel + dIns <= 1
           /\ (s1 = s2 => dInv = 1 /\ dDel = 0 /\ dIns = 0)
           /\ (s1 = "+" /\ s2 = "-" => dDel = 1)
           /\ (s1 = "-" /\ s2 = "+" => dIns = 1)
           /\ (s1 # s2 /\ <<s1, s2>> \notin {<<"+", "-">>, <<"-", "+">>} =>
                  dInv + dDel + dIns = 0)

C5_StrandPriority == [][C5_Step]_vars

C5_Witness ==
    /\ inversion >= 1
    /\ deletion + insertion >= 1
    /\ inversion + deletion + insertion < n_intrachrom

\* C7: once the loop has run and the mean is computed, with n_intrachrom > 0 it is
\* total_distance / n_intrachrom truncated, and with n_intrachrom = 0 it is
\* not a number.
C7_MeanOrNaN ==
    (pc \in AfterMean /\ bodyRuns >= 1) =>
        /\ n_intrachrom > 0 => mean_len = total_distance \div n_intrachrom
        /\ n_intrachrom = 0 => mean_len \notin Int

\* C8: the stream is closed exactly once, at the return; a leading
\* end-of-input returns with nothing emitted; otherwise the one report is
\* emitted after the first end-of-input and before the close.
C8_CloseOnceReportOnce ==
    /\ closes <= 1
    /\ pc = "returned" <=> stream = "closed"
    /\ pc = "returned" => closes = 1
    /\ (pc = "returned" /\ lineNum_a = 0) => out = <<>>
    /\ (pc \in {"close", "returned"} /\ lineNum_a > 0) =>
          /\ Len(out) = 2
          /\ out[1].part = "totals"
          /\ out[2].part = "histogram"
    /\ out # <<>> => (eofSeen = 1 /\ bedpeStatus_a = "BED_INVALID")
    /\ (out # <<>> /\ pc # "returned") => (stream = "open" /\ closes = 0)

C8_Witness == pc = "returned" /\ Len(out) = 2 /\ closes = 1 /\ lineNum_a >= 2

\* C9: every line pulled before the first end-of-input runs the loop body
\* once, the primed one included, and nothing is pulled after it; a header or
\* blank line leaves the counters, total_distance and the buffer unchanged and
\* the scan goes on to the next pull.
C9_Inv ==
    /\ eofSeen <= 1
    /\ pc = "loop" => (bodyRuns = lineNum_a - 1 /\ eofSeen = 0)
    /\ pc \in AfterLoop => (bodyRuns = lineNum_a /\ eofSeen = 1)

C9_Step ==
    (pc = "loop" /\ bedpeStatus_a \in {"BED_HEADER", "BED_BLANK"}) =>
        /\ Totals' = Totals
        /\ lineNum_a' + eofSeen' = lineNum_a + eofSeen + 1
        /\ pc' = (IF bedpeStatus_a' = "BED_INVALID" THEN "mean" ELSE "loop")

C9_EachLineOnceHeadersSkipped == [](C9_Inv) /\ [][C9_Step]_vars

C9_Witness ==
    /\ pc = "mean"
    /\ bodyRuns >= 3
    /\ validSeen = 2
    /\ n_intrachrom + n_interchrom = 2

\* C10: total_distance is the sum of the buffered distances, every buffered
\* distance is >= 0, and the distance appended for a record is
\* |start2 - start1|, whichever of the two starts is the larger.
C10_Inv ==
    /\ total_distance = SumSeq(accum)
    /\ \A i \in 1..Len(accum) : accum[i] >= 0

C10_Step ==
    (pc = "loop" /\ Len(accum') = Len(accum) + 1) =>
        LET d == accum'[Len(accum')]
            s1 == bedpeEntry_a.start1
            s2 == bedpeEntry_a.start2
        IN /\ d = AbsDiff(s1, s2)
           /\ d = llabs(s1 - s2)
           /\ s1 = s2 => d = 0

C10_TotalIsSumOfAbsDistances == [](C10_Inv) /\ [][C10_Step]_vars

C10_Witness ==
    /\ Len(accum) >= 3
    /\ 0 \in Range(accum)
    /\ 11 \in Range(accum)
    /\ 10 \in Range(accum)

----------------------------------------------------------------------------
(* The scan as a function of its input lines, run on an input and on a      *)
(* permutation of it                                                        *)

\* The lines SpecPerm draws its inputs from: a header, a record on one
\* chromosome, and records on two chromosomes at distances 0, 1 and 11
PermLines ==
    {[status |-> "BED_HEADER", entry |-> NullEntry],
     [status |-> "BED_VALID",
      entry |-> [chrom1 |-> "chr1", chrom2 |-> "chr1", start1 |-> 0, start2 |-> 1,
                 strand1 |-> "+", strand2 |-> "-"]],
     [status |-> "BED_VALID",
      entry |-> [chrom1 |-> "chr1", chrom2 |-> "chr2", start1 |-> 11, start2 |-> 11,
                 strand1 |-> "+", strand2 |-> "+"]],
     [status |-> "BED_VALID",
      entry |-> [chrom1 |-> "chr1", chrom2 |-> "chr2", start1 |-> 0, start2 |-> 1,
                 strand1 |-> "+", strand2 |-> "-"]],
     [status |-> "BED_VALID",
      entry |-> [chrom1 |-> "chr1", chrom2 |-> "chr2", start1 |-> 11, start2 |-> 0,
                 strand1 |-> "-", strand2 |-> "+"]]}

PermInputs == UNION {[1..n -> PermLines] : n \in 0..PermMaxLen}

Permutations(s) ==
    LET n == Len(s)
        bij == {q \in [1..n -> 1..n] : \A i, j \in 1..n : q[i] = q[j] => i = j}
    IN {[i \in 1..n |-> s[q[i]]] : q \in bij}

\* The do-while loop over the lines up to the first end-of-input
RECURSIVE ScanLoop(_, _)
ScanLoop(t, lines) ==
    IF lines = <<>> THEN t
    ELSE ScanLoop(Accumulate(t, lines[1].status, lines[1].entry), Tail(lines))

\* ProcessBedPE_summary on the lines of one input: the outcomes of the run
ProcessBedPE_summary(lines) ==
    IF lines = <<>>
    THEN {[Pending EXCEPT !.run = "no_report"]}
    ELSE LET t == ScanLoop(ZeroTotals, lines)
         IN UNION {
               UNION {
                  {IF r.crashed \/ hr.crashed
                   THEN [Pending EXCEPT !.run = "crashed"]
                   ELSE [run |-> "report", totals |-> [t EXCEPT !.accum = r.accum],
                         mean |-> m, median |-> r.value, histogram |-> hr.h] :
                      hr \in HistogramData(r.accum, NumBins)} :
                  r \in calc_median_chrposv(t.accum)} :
               m \in MeanLen(t.total_distance, t.n_intrachrom)}

PermInit ==
    /\ ScanInit
    /\ permA \in PermInputs
    /\ permB \in Permutations(permA)
    /\ resA = Pending /\ resB = Pending

PermRunA ==
    /\ resA.run = "pending"
    /\ resA' \in ProcessBedPE_summary(permA)
    /\ UNCHANGED <<permA, permB, resB>>
    /\ UNCHANGED scanvars

PermRunB ==
    /\ resB.run = "pending"
    /\ resB' \in ProcessBedPE_summary(permB)
    /\ UNCHANGED <<permA, permB, resA>>
    /\ UNCHANGED scanvars

PermNext ==
    \/ PermRunA
    \/ PermRunB

SpecPerm == PermInit /\ [][PermNext]_vars

\* The k-th smallest element of a non-empty sequence, by counting
KthSmallest(s, k) ==
    CHOOSE v \in Range(s) :
        /\ Cardinality({i \in 1..Len(s) : s[i] < v}) < k
        /\ k <= Cardinality({i \in 1..Len(s) : s[i] <= v})

\* The exact median of a non-empty sequence
ExactMedian(s) ==
    LET n == Len(s)
    IN IF n % 2 = 1 THEN KthSmallest(s, (n + 1) \div 2)
       ELSE (KthSmallest(s, n \div 2) + KthSmallest(s, (n \div 2) + 1)) \div 2

====
